---- MODULE Spec2Model ----
(***************************************************************************)
(* A model of elo.py: the Elo update (calculate_elo), the pitcher game     *)
(* score with its rolling histories (game_score), the end-of-season mean   *)
(* reversion (revert_to_mean) and the season/day/game driver of __main__.  *)
(*                                                                         *)
(* Numbers.  The program computes in floating point; the model computes    *)
(* exactly, in fixed units chosen so that no quotient is rounded:          *)
(*   - a rating is an integer number of 1/Scale rating points;             *)
(*   - a game score is an integer number of tenths (47.4 is 474);          *)
(*   - an adjustment and an expectation are exact fractions <<n, d>>;      *)
(*   - a squared error is an integer number of 1/ErrScale.                 *)
(* math.pow(10, r / 400) is irrational and is modelled by Pow10, a         *)
(* positive nondecreasing step function with the values 1, 2, 3.  Floating *)
(* point rounding is therefore outside the model.                          *)
(***************************************************************************)
EXTENDS Integers, Sequences, FiniteSets, TLC

VARIABLES
    seasons,      \* __main__: seasons[season][day] = the games of that file
    cache,        \* what cache_request returns for each game id
    ratings,      \* ratings (defaultdict): the keys present and their values
    rgs,          \* rgs (defaultdict): the keys present and their histories
    analysis,     \* analysis (defaultdict): per season, the two buckets
    pc,           \* the statement of __main__ about to run
    si, di, gi,   \* position of the three nested loops (1-based)
    rating_away, rating_home,   \* what calculate_elo returned
    adj_away, adj_home,         \* what game_score returned, fractions
    observed_away, observed_home, \* locals of line 173
    error_raised, \* the exception that ended the run, or "none"
    pre,          \* history: ratings and rgs when the current game began
    appended,     \* history: every score ever appended, per rgs key
    log,          \* history: the calls made, in order
    twin          \* a second run over the same game files with a cache of
                  \* its own, stepped together with the first: its cache,
                  \* ratings, rgs, adjustments and exception

vars == <<seasons, cache, ratings, rgs, analysis, pc, si, di, gi,
          rating_away, rating_home, adj_away, adj_home,
          observed_away, observed_home, error_raised, pre, appended, log,
          twin>>

----------------------------------------------------------------------------
(* The model dictionary, lines 9-36.                                       *)

mean == 1500
K == 10
\* seasonRevertFactor = 0.2 = seasonRevertFactorNum / seasonRevertFactorDen
seasonRevertFactorNum == 1
seasonRevertFactorDen == 5
\* gamescore multipliers, in tenths
gs_base == 474
gs_strikeouts == 10
gs_outs == 15
gs_walks == -20
gs_hits == -20
gs_runs == -30
gs_homeruns == -30
playerRgs == 5
teamRgs == 25
\* gsMult = 5.9, in tenths
gsMult == 59

\* the first (season, day) with event data, line 98
ThresholdSeason == 1
ThresholdDay == 38

\* Units.  K * Scale is a multiple of every q_away + q_home (2 .. 6) times
\* 5^5, so that an update and up to five reversions are exact.
Scale == 6 * 3125
\* ErrScale is a multiple of every squared denominator of an expectation
\* (4, 9, 16, 25, 36) and of 100 * 100 (odds are given in percent).
ErrScale == 90000

----------------------------------------------------------------------------
(* Bounds and input sets.                                                  *)

MaxGamesPerDay == 2
MaxTotalGames == 2
MaxEvents == 2
MaxRollingDays == 27
MaxTwinGames == 3

Teams == {"T1", "T2", "T3"}
Pitchers == {"P1", "P2"}
\* a pitcher_id that is null or empty in the event data (falsy in Python)
NoPitcher == ""

SeasonKeys == {1, 2}
DayKeys == {37, 38}

KnownTypes == {"STRIKEOUT", "OUT", "CAUGHT_STEALING", "WALK", "SINGLE",
               "DOUBLE", "TRIPLE", "FIELDERS_CHOICE", "HOME_RUN",
               "STOLEN_BASE", "UNKNOWN"}
EventTypes == KnownTypes \cup {"DOUBLE_STEAL"}

\* what a game record holds beside its id, season and day; odds in percent
GameKinds ==
    { [awayTeam |-> "T1", homeTeam |-> "T2", awayScore |-> 3, homeScore |-> 1,
       awayOdds |-> 60, homeOdds |-> 40],
      [awayTeam |-> "T2", homeTeam |-> "T1", awayScore |-> 0, homeScore |-> 2,
       awayOdds |-> 50, homeOdds |-> 50],
      [awayTeam |-> "T1", homeTeam |-> "T3", awayScore |-> 1, homeScore |-> 1,
       awayOdds |-> 60, homeOdds |-> 40],
      [awayTeam |-> "T3", homeTeam |-> "T2", awayScore |-> 2, homeScore |-> 0,
       awayOdds |-> 40, homeOdds |-> 60] }

Event(t, p, team) == [event_type |-> t, pitcher_id |-> p, pitcher_team_id |-> team]

MakeGame(s, d, i, k) ==
    [id |-> <<s, d, i>>, season |-> s, day |-> d,
     awayTeam |-> k.awayTeam, homeTeam |-> k.homeTeam,
     awayScore |-> k.awayScore, homeScore |-> k.homeScore,
     awayOdds |-> k.awayOdds, homeOdds |-> k.homeOdds]

----------------------------------------------------------------------------
(* Helpers.                                                                *)

RECURSIVE SumSeq(_)
SumSeq(s) == IF s = <<>> THEN 0 ELSE Head(s) + SumSeq(Tail(s))

SetMin(S) == CHOOSE m \in S : \A x \in S : m <= x
SetMax(S) == CHOOSE m \in S : \A x \in S : m >= x

\* sorted(d.items()) of a dict with integer keys: the keys, ascending
RECURSIVE SortedDescending(_)
SortedDescending(S) ==
    IF S = {} THEN <<>>
    ELSE <<SetMax(S)>> \o SortedDescending(S \ {SetMax(S)})

RECURSIVE SortedKeys(_)
SortedKeys(S) ==
    IF S = {} THEN <<>>
    ELSE <<SetMin(S)>> \o SortedKeys(S \ {SetMin(S)})

\* a defaultdict read
Lookup(f, k, default) == IF k \in DOMAIN f THEN f[k] ELSE default
\* ratings[t] as a read of the defaultdict gives it
RatingOf(rt, t) == Lookup(rt, t, mean * Scale)
\* a defaultdict write
Store(f, k, v) == [x \in DOMAIN f \cup {k} |-> IF x = k THEN v ELSE f[x]]

\* a / b < c / e for b, e > 0, without forming a * e
LessFrac(a, b, c, e) ==
    LET fa == a \div b
        fc == c \div e
    IN  \/ fa < fc
        \/ fa = fc /\ (a - fa * b) * e < (c - fc * e) * b

----------------------------------------------------------------------------
(* expected, observed, calculate_elo: lines 42-67.                         *)

\* math.pow(10, x / 400) for x = r / Scale + adj[1] / adj[2]
Pow10(r, adj) ==
    IF LessFrac(r - (mean - 3) * Scale, Scale, -adj[1], adj[2]) THEN 1
    ELSE IF LessFrac(r - (mean + 3) * Scale, Scale, -adj[1], adj[2]) THEN 2
    ELSE 3

NoAdj == <<0, 1>>

\* expected(): the two probabilities, each a fraction <<n, d>>
ExpectedSameTwice(ra, adja, rh, adjh) ==
    LET q_away == Pow10(ra, adja)
        q_home == Pow10(rh, adjh)
    IN  <<<<q_away, q_away + q_home>>, <<q_away, q_away + q_home>>>>

expected(ra, adja, rh, adjh) ==
    LET q_away == Pow10(ra, adja)
        q_home == Pow10(rh, adjh)
    IN  <<<<q_away, q_away + q_home>>, <<q_home, q_away + q_home>>>>

observedTieToAway(game) ==
    LET o == IF game.awayScore >= game.homeScore THEN 1 ELSE 0
    IN  <<o, 1 - o>>

observed(game) ==
    LET o == IF game.awayScore > game.homeScore THEN 1 ELSE 0
    IN  <<o, 1 - o>>

\* K * (observed - expected), in 1/Scale
EloDelta(obs, exp) == (K * Scale * (obs * exp[2] - exp[1])) \div exp[2]

\* the ratings after lines 58-65
NewRatings(rt, game) ==
    LET ra == Lookup(rt, game.awayTeam, mean * Scale)
        r1 == Store(rt, game.awayTeam, ra)
        rh == Lookup(r1, game.homeTeam, mean * Scale)
        r2 == Store(r1, game.homeTeam, rh)
        e  == expected(ra, NoAdj, rh, NoAdj)
        o  == observed(game)
        r3 == Store(r2, game.awayTeam, r2[game.awayTeam] + EloDelta(o[1], e[1]))
    IN  Store(r3, game.homeTeam, r3[game.homeTeam] + EloDelta(o[2], e[2]))

----------------------------------------------------------------------------
(* game_score: lines 92-143.                                               *)

\* (a1, a2) < (b1, b2) as Python compares tuples
TupleLessBothSmaller(a1, a2, b1, b2) == a1 < b1 /\ a2 < b2

TupleLess(a1, a2, b1, b2) == a1 < b1 \/ (a1 = b1 /\ a2 < b2)

\* line 98
BeforeEventData(game) ==
    TupleLess(game.season, game.day, ThresholdSeason, ThresholdDay)

\* lines 118-133: <<what one event adds to the score>>, or <<>> for the raise
EventDelta(t) ==
    CASE t = "STRIKEOUT" -> <<gs_strikeouts + gs_outs>>
      [] t \in {"CAUGHT_STEALING", "OUT"} -> <<gs_outs>>
      [] t = "WALK" -> <<gs_walks + gs_hits>>
      [] t \in {"SINGLE", "DOUBLE", "TRIPLE"} -> <<gs_hits>>
      [] t \in {"FIELDERS_CHOICE"} -> <<gs_outs + gs_hits>>
      [] t = "HOME_RUN" -> <<gs_homeruns>>
      [] t \in {"STOLEN_BASE", "UNKNOWN"} -> <<0>>
      [] OTHER -> <<>>

\* lines 117-133: the loop over the events, from the running score
RECURSIVE ScoreEvents(_, _)
ScoreEvents(evs, score) ==
    IF evs = <<>> THEN [raised |-> FALSE, score |-> score]
    ELSE LET d == EventDelta(Head(evs).event_type)
         IN  IF d = <<>> THEN [raised |-> TRUE, score |-> score]
             ELSE ScoreEvents(Tail(evs), score + d[1])

\* h[:n], the oldest n
FirstN(h, n) == IF Len(h) <= n THEN h ELSE SubSeq(h, 1, n)

\* h[-n:], lines 136 and 138
LastN(h, n) == IF Len(h) <= n THEN h ELSE SubSeq(h, Len(h) - n + 1, Len(h))

\* line 109: the events whose pitcher_id is truthy
WithPitcher(evs) == SelectSeq(evs, LAMBDA e : e.pitcher_id # NoPitcher)

\* lines 140-141, as a fraction of a rating point
Adjustment(hp, ht) ==
    <<gsMult * (SumSeq(hp) * Len(ht) - SumSeq(ht) * Len(hp)),
      100 * Len(hp) * Len(ht)>>

\* One pass of the loop of line 106 over st = [events, rgs, appended, err,
\* adj], for which = "away" or "home".
Side(st, game, which) ==
    LET team == IF which = "away" THEN game.awayTeam ELSE game.homeTeam
        oppScore == IF which = "away" THEN game.homeScore ELSE game.awayScore
        mine == {i \in 1..Len(st.events) : st.events[i].pitcher_team_id = team}
    IN  IF st.err # "none" THEN st
        ELSE IF mine = {} THEN [st EXCEPT !.err = "StopIteration"]
        ELSE
          LET pitcher == st.events[SetMin(mine)].pitcher_id
              evs == WithPitcher(st.events)
              sc == ScoreEvents(evs, gs_base + oppScore * gs_runs)
          IN  IF sc.raised
              THEN [st EXCEPT !.events = evs, !.err = "ValueError"]
              ELSE
                LET hp == LastN(Append(Lookup(st.rgs, pitcher, <<>>), sc.score),
                                playerRgs)
                    g1 == Store(st.rgs, pitcher, hp)
                    ht == LastN(Append(Lookup(g1, team, <<>>), sc.score), teamRgs)
                    g2 == Store(g1, team, ht)
                    a1 == Store(st.appended, pitcher,
                                Append(Lookup(st.appended, pitcher, <<>>), sc.score))
                    a2 == Store(a1, team,
                                Append(Lookup(a1, team, <<>>), sc.score))
                IN  [st EXCEPT !.events = evs, !.rgs = g2, !.appended = a2,
                               !.adj = Store(st.adj, which, Adjustment(g2[pitcher], g2[team]))]

\* game_score(game) with evs in the cache, hist for rgs and app for the
\* history of appends: what it leaves behind
GameScore(game, evs, hist, app) ==
    LET st0 == [events |-> evs, rgs |-> hist, appended |-> app,
                err |-> "none", adj |-> <<>>, fetched |-> TRUE]
    IN  IF BeforeEventData(game)
        THEN [st0 EXCEPT !.events = <<>>, !.fetched = FALSE,
                         !.adj = [w \in {"away", "home"} |-> <<0, 1>>]]
        ELSE Side(Side(st0, game, "away"), game, "home")

----------------------------------------------------------------------------
(* revert_to_mean and the statistics: lines 146-153, 172-182.              *)

\* line 152-153 for one rating, in 1/Scale
Reverted(r) ==
    (seasonRevertFactorNum * mean * Scale
       + (seasonRevertFactorDen - seasonRevertFactorNum) * r)
      \div seasonRevertFactorDen

\* lines 150-153
RevertAll(rt) == [t \in DOMAIN rt |-> Reverted(rt[t])]

\* error(expected, observed) for expected = e[1] / e[2], in 1/ErrScale
error(e, o) == (ErrScale \div (e[2] * e[2])) * (e[1] - o * e[2]) * (e[1] - o * e[2])

\* int(abs(expected - observed) < 0.5) for expected = e[1] / e[2]
Correct(e, o) ==
    LET diff == IF e[1] >= o * e[2] THEN e[1] - o * e[2] ELSE o * e[2] - e[1]
    IN  IF 2 * diff < e[2] THEN 1 ELSE 0

ZeroBucket == [count |-> 0, correct |-> 0, error |-> 0]
NewSeasonStats == [sibr |-> ZeroBucket, official |-> ZeroBucket]

AddToBucket(b, e_away, e_home, o) ==
    [count |-> b.count + 1,
     correct |-> b.correct + Correct(e_away, o[1]),
     error |-> b.error + error(e_away, o[1]) + error(e_home, o[2])]

\* lines 172-182: the statistics of a season after one more game
NewStatsAlwaysOfficial(stats, game, ra, adja, rh, adjh) ==
    LET e == expected(ra, adja, rh, adjh)
        o == observed(game)
    IN  [sibr |-> AddToBucket(stats.sibr, e[1], e[2], o),
         official |-> AddToBucket(stats.official, <<game.awayOdds, 100>>,
                                  <<game.homeOdds, 100>>, o)]

NewStats(stats, game, ra, adja, rh, adjh) ==
    LET e == expected(ra, adja, rh, adjh)
        o == observed(game)
        s1 == [stats EXCEPT !.sibr = AddToBucket(stats.sibr, e[1], e[2], o)]
    IN  IF game.awayOdds # game.homeOdds
        THEN [s1 EXCEPT !.official =
                  AddToBucket(stats.official, <<game.awayOdds, 100>>,
                              <<game.homeOdds, 100>>, o)]
        ELSE s1

----------------------------------------------------------------------------
(* __main__: lines 167-184.                                                *)

SeasonOrder == SortedKeys(DOMAIN seasons)
CurSeason == SeasonOrder[si]
DayOrder == SortedKeys(DOMAIN seasons[CurSeason])
CurDay == DayOrder[di]
CurGames == seasons[CurSeason][CurDay]
CurGame == CurGames[gi]

Entry(op, id) == [op |-> op, id |-> id]

\* calculate_elo feeding expected() the ratings shifted by the adjustments
\* game_score last returned, as line 172 does for the prediction
NewRatingsAdjusted(rt, game, adja, adjh) ==
    LET ra == RatingOf(rt, game.awayTeam)
        rh == RatingOf(rt, game.homeTeam)
        e  == expected(ra, adja, rh, adjh)
        o  == observed(game)
        r1 == Store(rt, game.awayTeam, ra + EloDelta(o[1], e[1]))
    IN  Store(r1, game.homeTeam, RatingOf(r1, game.homeTeam) + EloDelta(o[2], e[2]))

calculate_elo_adjusted ==
    /\ pc = "calculate_elo"
    /\ rating_away' = Lookup(ratings, CurGame.awayTeam, mean * Scale)
    /\ rating_home' = Lookup(ratings, CurGame.homeTeam, mean * Scale)
    /\ ratings' = NewRatingsAdjusted(ratings, CurGame, adj_away, adj_home)
    /\ pre' = [ratings |-> ratings, rgs |-> rgs]
    /\ log' = Append(log, Entry("calculate_elo", CurGame.id))
    /\ pc' = "game_score"
    /\ twin' = IF twin.err = "none"
               THEN [twin EXCEPT !.ratings =
                         NewRatingsAdjusted(@, CurGame, twin.adj_away, twin.adj_home)]
               ELSE twin
    /\ UNCHANGED <<seasons, cache, rgs, analysis, si, di, gi, adj_away, adj_home,
                   observed_away, observed_home, error_raised, appended>>

\* line 170
calculate_elo ==
    /\ pc = "calculate_elo"
    /\ rating_away' = Lookup(ratings, CurGame.awayTeam, mean * Scale)
    /\ rating_home' = Lookup(ratings, CurGame.homeTeam, mean * Scale)
    /\ ratings' = NewRatings(ratings, CurGame)
    /\ pre' = [ratings |-> ratings, rgs |-> rgs]
    /\ log' = Append(log, Entry("calculate_elo", CurGame.id))
    /\ pc' = "game_score"
    /\ twin' = IF twin.err = "none"
               THEN [twin EXCEPT !.ratings = NewRatings(@, CurGame)]
               ELSE twin
    /\ UNCHANGED <<seasons, cache, rgs, analysis, si, di, gi, adj_away, adj_home,
                   observed_away, observed_home, error_raised, appended>>

\* line 171
game_score ==
    /\ pc = "game_score"
    /\ LET r == GameScore(CurGame, cache[CurGame.id], rgs, appended)
           r2 == GameScore(CurGame, twin.cache[CurGame.id], twin.rgs, <<>>)
       IN  /\ twin' = IF twin.err = "none"
                      THEN [twin EXCEPT !.rgs = r2.rgs, !.err = r2.err,
                                        !.adj_away = Lookup(r2.adj, "away", NoAdj),
                                        !.adj_home = Lookup(r2.adj, "home", NoAdj)]
                      ELSE twin
           /\ rgs' = r.rgs
           /\ appended' = r.appended
           /\ error_raised' = r.err
           /\ adj_away' = Lookup(r.adj, "away", NoAdj)
           /\ adj_home' = Lookup(r.adj, "home", NoAdj)
           /\ log' = log \o (IF r.fetched THEN <<Entry("cache_request", CurGame.id)>>
                             ELSE <<>>)
                         \o <<Entry("game_score", CurGame.id)>>
           /\ pc' = IF r.err = "none" THEN "analysis" ELSE "raised"
    /\ UNCHANGED <<seasons, cache, ratings, analysis, si, di, gi, rating_away,
                   rating_home, observed_away, observed_home, pre>>

\* lines 172-182, and the three loops stepping to the next game
accumulate ==
    /\ pc = "analysis"
    /\ observed_away' = observed(CurGame)[1]
    /\ observed_home' = observed(CurGame)[2]
    /\ analysis' = Store(analysis, CurSeason,
                         NewStats(Lookup(analysis, CurSeason, NewSeasonStats),
                                  CurGame, rating_away, adj_away,
                                  rating_home, adj_home))
    /\ log' = Append(log, Entry("analysis", CurGame.id))
    /\ IF gi < Len(CurGames)
       THEN /\ gi' = gi + 1 /\ di' = di /\ pc' = "calculate_elo"
       ELSE IF di < Len(DayOrder)
       THEN /\ gi' = 1 /\ di' = di + 1 /\ pc' = "calculate_elo"
       ELSE /\ gi' = gi /\ di' = di /\ pc' = "revert_to_mean"
    /\ UNCHANGED <<seasons, cache, ratings, rgs, si, rating_away, rating_home,
                   adj_away, adj_home, error_raised, pre, appended, twin>>

\* line 184, and the season loop stepping to the next season
revert_to_mean ==
    /\ pc = "revert_to_mean"
    /\ ratings' = RevertAll(ratings)
    /\ twin' = IF twin.err = "none"
               THEN [twin EXCEPT !.ratings = RevertAll(@)]
               ELSE twin
    /\ log' = Append(log, Entry("revert_to_mean", <<CurSeason, 0, 0>>))
    /\ IF si < Len(SeasonOrder)
       THEN /\ si' = si + 1 /\ di' = 1 /\ gi' = 1 /\ pc' = "calculate_elo"
       ELSE /\ si' = si /\ di' = di /\ gi' = gi /\ pc' = "done"
    /\ UNCHANGED <<seasons, cache, rgs, analysis, rating_away, rating_home,
                   adj_away, adj_home, observed_away, observed_home,
                   error_raised, pre, appended>>

Next == calculate_elo \/ game_score \/ accumulate \/ revert_to_mean

----------------------------------------------------------------------------
(* Initial states: the game files as loaded (lines 157-162), the cache     *)
(* contents, and everything else as the module leaves it (lines 38-39,     *)
(* 164).                                                                   *)

Start(seas, cach, cach2) ==
    /\ seasons = seas
    /\ cache = cach
    /\ ratings = <<>>
    /\ rgs = <<>>
    /\ analysis = <<>>
    /\ pc = "calculate_elo"
    /\ si = 1 /\ di = 1 /\ gi = 1
    /\ rating_away = 0 /\ rating_home = 0
    /\ adj_away = NoAdj /\ adj_home = NoAdj
    /\ observed_away = 0 /\ observed_home = 0
    /\ error_raised = "none"
    /\ pre = [ratings |-> <<>>, rgs |-> <<>>]
    /\ appended = <<>>
    /\ log = <<>>
    /\ twin = [cache |-> cach2, ratings |-> <<>>, rgs |-> <<>>, err |-> "none",
               adj_away |-> NoAdj, adj_home |-> NoAdj]

\* the event lists tried for a game: 1 a clean one, 2 one with an event
\* outside the taxonomy, 3 one with such an event that has no pitcher,
\* 4 one in which the home team never pitches
EventList(k, j) ==
    CASE j = 1 -> <<Event("STRIKEOUT", "P1", k.awayTeam),
                    Event("HOME_RUN", "P2", k.homeTeam)>>
      [] j = 2 -> <<Event("OUT", "P1", k.awayTeam),
                    Event("DOUBLE_STEAL", "P2", k.homeTeam)>>
      [] j = 3 -> <<Event("DOUBLE_STEAL", NoPitcher, k.awayTeam),
                    Event("WALK", "P2", k.awayTeam),
                    Event("SINGLE", "P1", k.homeTeam)>>
      [] OTHER -> <<Event("OUT", "P1", k.awayTeam)>>

Slots == SeasonKeys \X DayKeys

\* the ids of the games of a schedule n: slot -> number of games
IdsOf(n) == UNION {{<<sl[1], sl[2], i>> : i \in 1..n[sl]} : sl \in Slots}

SeasonsOf(n, kind) ==
    [s \in {sl[1] : sl \in {x \in Slots : n[x] > 0}} |->
        [d \in {sl[2] : sl \in {x \in Slots : x[1] = s /\ n[x] > 0}} |->
            [i \in 1..n[<<s, d>>] |-> MakeGame(s, d, i, kind[<<s, d, i>>])]]]

\* the cache of a game played before the event data holds nothing the run
\* reads: one list stands for all
ListsFor(id) ==
    IF id[1] < ThresholdSeason \/ (id[1] = ThresholdSeason /\ id[2] < ThresholdDay)
    THEN {1} ELSE {1, 2, 3, 4}

Init ==
    \E n \in [Slots -> 0..MaxGamesPerDay] :
      /\ Cardinality(IdsOf(n)) \in 1..MaxTotalGames
      /\ \E kind \in [IdsOf(n) -> GameKinds] :
           \E j \in [IdsOf(n) -> {1, 2, 3, 4}] :
             /\ \A id \in IdsOf(n) : j[id] \in ListsFor(id)
             /\ LET cach == [id \in IdsOf(n) |-> EventList(kind[id], j[id])]
                IN  Start(SeasonsOf(n, kind), cach, cach)

Spec == Init /\ [][Next]_vars

\* One game with event data whose event list is any MaxEvents events or
\* fewer, followed by an out thrown by each team's pitcher.
EventUniverse(k) ==
    {Event(t, p, team) : t \in EventTypes, p \in Pitchers \cup {NoPitcher},
                         team \in {k.awayTeam, k.homeTeam}}

FirstKind == CHOOSE k \in GameKinds : k.awayTeam = "T1" /\ k.homeTeam = "T2"

InitEvents ==
    \E len \in 1..MaxEvents :
      \E first \in [1..len -> EventUniverse(FirstKind)] :
        LET evs == first \o <<Event("OUT", "P1", FirstKind.awayTeam),
                              Event("OUT", "P2", FirstKind.homeTeam)>>
        IN  Start([s \in {2} |-> [d \in {37} |-> <<MakeGame(2, 37, 1, FirstKind)>>]],
                  [id \in {<<2, 37, 1>>} |-> evs], [id \in {<<2, 37, 1>>} |-> evs])

SpecEvents == InitEvents /\ [][Next]_vars

\* One season of MaxRollingDays days of one game each, all with event data:
\* the games before day c are of one kind, those from day c on of another.
RollingKinds == {k \in GameKinds : {k.awayTeam, k.homeTeam} = {"T1", "T2"}}

InitRolling ==
    \E c \in 1..MaxRollingDays :
      \E ka \in RollingKinds, kb \in RollingKinds, ja \in {1, 3}, jb \in {1, 3} :
        LET kindOf(d) == IF d < c THEN ka ELSE kb
            listOf(d) == IF d < c THEN ja ELSE jb
            cach == [id \in {<<2, d, 1>> : d \in 1..MaxRollingDays} |->
                       EventList(kindOf(id[2]), listOf(id[2]))]
        IN  Start([s \in {2} |->
                     [d \in 1..MaxRollingDays |-> <<MakeGame(2, d, 1, kindOf(d))>>]],
                  cach, cach)

SpecRolling == InitRolling /\ [][Next]_vars

\* Two runs over the same MaxTwinGames games of one season, one a day, all
\* with event data, whose caches hold different event lists.
InitTwin ==
    \E kind \in [1..MaxTwinGames -> RollingKinds] :
      \E j \in [1..MaxTwinGames -> {1, 3}], j2 \in [1..MaxTwinGames -> {1, 3}] :
        Start([s \in {2} |->
                 [d \in 1..MaxTwinGames |-> <<MakeGame(2, d, 1, kind[d])>>]],
              [id \in {<<2, d, 1>> : d \in 1..MaxTwinGames} |->
                 EventList(kind[id[2]], j[id[2]])],
              [id \in {<<2, d, 1>> : d \in 1..MaxTwinGames} |->
                 EventList(kind[id[2]], j2[id[2]])])

SpecTwin == InitTwin /\ [][Next]_vars

----------------------------------------------------------------------------
(* What the claims speak of.                                               *)

LogOf(op) == SelectSeq(log, LAMBDA e : e.op = op)
IdsIn(entries) == {entries[i].id : i \in 1..Len(entries)}
GameById(id) == seasons[id[1]][id[2]][id[3]]
AllIds ==
    UNION {UNION {{<<s, d, i>> : i \in 1..Len(seasons[s][d])} :
                  d \in DOMAIN seasons[s]} : s \in DOMAIN seasons}

\* (season, day, place in the day's file) of a before that of b
IdLess(a, b) ==
    \/ a[1] < b[1]
    \/ a[1] = b[1] /\ a[2] < b[2]
    \/ a[1] = b[1] /\ a[2] = b[2] /\ a[3] < b[3]

\* game_score has just run for CurGame
JustScored == pc \in {"analysis", "raised"}

\* CurGame lies before season 2 day 39 (season 1, day 38, counted from 0)
BeforeThreshold(g) == g.season < 1 \/ (g.season = 1 /\ g.day < 38)

----------------------------------------------------------------------------
\* C1: whenever the fetched event list of a game holds an event whose type
\* is outside the taxonomy, game_score ends with the unrecognized-event
\* error (the ValueError), whatever the event's other fields are.
C1_UnknownEventAlwaysRaises ==
    (JustScored /\ ~BeforeThreshold(CurGame)
       /\ \E i \in 1..Len(cache[CurGame.id]) :
            cache[CurGame.id][i].event_type \notin KnownTypes)
      => error_raised = "ValueError"

\* C2: when a game fails with the unrecognized-event error, the ratings and
\* the rolling histories are what they were when the game began.
C2_FailedGameMutatesNothing ==
    error_raised = "ValueError" => (ratings = pre.ratings /\ rgs = pre.rgs)

\* the capacity of the history kept under key k
CapOf(k) == IF k \in Teams THEN teamRgs ELSE playerRgs

\* C3: a pitcher's history holds at most playerRgs scores and a team's at
\* most teamRgs, and they are the most recent ones appended for that key,
\* in the order they arrived.
C3_RollingHistoryKeepsMostRecent ==
    \A k \in DOMAIN rgs :
      LET h == rgs[k]
          all == appended[k]
      IN  /\ Len(h) <= CapOf(k)
          /\ Len(h) = (IF Len(all) <= CapOf(k) THEN Len(all) ELSE CapOf(k))
          /\ \A i \in 1..Len(h) : h[i] = all[Len(all) - Len(h) + i]

C3_Witness ==
    /\ "T1" \in DOMAIN rgs /\ "P1" \in DOMAIN rgs
    /\ Len(appended["T1"]) > teamRgs
    /\ Len(appended["P1"]) > playerRgs
    /\ appended["T1"][1] # appended["T1"][Len(appended["T1"])]
    /\ appended["P1"][1] # appended["P1"][Len(appended["P1"])]

\* C4: the number of reversions run equals the number of season boundaries
\* crossed: while a season's games are processed it is the number of
\* seasons before it, and when the run ends it is one less than the number
\* of seasons.
C4_OneReversionPerBoundary ==
    LET reverts == Len(LogOf("revert_to_mean"))
        begun == {id[1] : id \in IdsIn(LogOf("calculate_elo"))}
    IN  /\ pc \in {"game_score", "analysis"} => reverts = Cardinality(begun) - 1
        /\ pc = "done" => reverts = Cardinality(DOMAIN seasons) - 1

Ascending(entries) ==
    \A i \in 1..Len(entries), j \in 1..Len(entries) :
      i < j => IdLess(entries[i].id, entries[j].id)

NoGap(entries) ==
    \A id \in AllIds :
      (\E done \in IdsIn(entries) : IdLess(id, done)) => id \in IdsIn(entries)

\* C5: calculate_elo and game_score are each called for the games in
\* chronological order (season, day, place in the file), never twice for a
\* game and never skipping one, and a finished run has called both for
\* every loaded game.
C5_ChronologicalExactlyOnce ==
    /\ Ascending(LogOf("calculate_elo")) /\ NoGap(LogOf("calculate_elo"))
    /\ Ascending(LogOf("game_score")) /\ NoGap(LogOf("game_score"))
    /\ IdsIn(LogOf("game_score")) \subseteq IdsIn(LogOf("calculate_elo"))
    /\ Len(LogOf("calculate_elo")) - Len(LogOf("game_score")) \in {0, 1}
    /\ pc = "done" => /\ IdsIn(LogOf("calculate_elo")) = AllIds
                      /\ IdsIn(LogOf("game_score")) = AllIds

C5_Witness ==
    /\ pc = "done"
    /\ Cardinality(AllIds) >= 2
    /\ \E a \in AllIds, b \in AllIds : a[1] # b[1]

\* C6: two runs over the same games whose event data differ hold the same
\* ratings after every game, as long as neither has failed.
C6_RatingsIgnoreEventData ==
    (error_raised = "none" /\ twin.err = "none") => twin.ratings = ratings

C6_Witness ==
    /\ pc = "done"
    /\ twin.rgs # rgs
    /\ twin.adj_away # adj_away
    /\ Len(LogOf("calculate_elo")) >= 3

\* C7: for a game before the threshold game_score returns (0, 0), asks the
\* cache for nothing and leaves every rolling history alone; for a game at
\* or after the threshold it asks the cache for the game's events.
C7_ThresholdDecidesFetch ==
    JustScored =>
      LET asked == CurGame.id \in IdsIn(LogOf("cache_request"))
      IN  IF BeforeThreshold(CurGame)
          THEN /\ ~asked
               /\ adj_away[1] = 0 /\ adj_home[1] = 0
               /\ rgs = pre.rgs
               /\ error_raised = "none"
          ELSE asked

C7_Witness ==
    /\ JustScored
    /\ BeforeThreshold(CurGame)
    /\ CurGame.season = 1

PlayedIn(s) == {id \in IdsIn(LogOf("analysis")) : id[1] = s}

C8_Counts ==
    /\ DOMAIN analysis = {id[1] : id \in IdsIn(LogOf("analysis"))}
    /\ \A s \in DOMAIN analysis :
         /\ analysis[s].sibr.count = Cardinality(PlayedIn(s))
         /\ analysis[s].official.count =
              Cardinality({id \in PlayedIn(s) :
                             GameById(id).awayOdds # GameById(id).homeOdds})
         /\ analysis[s].official.count <= analysis[s].sibr.count
         /\ analysis[s].sibr.correct <= analysis[s].sibr.count
         /\ analysis[s].official.correct <= analysis[s].official.count
         /\ (analysis[s].official.count = 0 => analysis[s].official = ZeroBucket)

C8_Step ==
    /\ pc = "analysis" =>
         LET g == CurGame
             old == IF g.season \in DOMAIN analysis THEN analysis[g.season]
                    ELSE [sibr |-> ZeroBucket, official |-> ZeroBucket]
         IN  /\ DOMAIN analysis' = DOMAIN analysis \cup {g.season}
             /\ analysis'[g.season].sibr.count = old.sibr.count + 1
             /\ g.awayOdds = g.homeOdds => analysis'[g.season].official = old.official
             /\ g.awayOdds # g.homeOdds =>
                  analysis'[g.season].official.count = old.official.count + 1
             /\ \A s \in DOMAIN analysis \ {g.season} : analysis'[s] = analysis[s]
    /\ pc # "analysis" => analysis' = analysis

\* C8: every processed game adds one to the model count of its season; the
\* baseline bucket changes exactly when awayOdds # homeOdds; no other
\* season's statistics change; so baseline count <= model count and
\* correct <= count in both buckets.
C8_BucketsCountGames == []C8_Counts /\ [][C8_Step]_vars

C8_Witness ==
    \E s \in DOMAIN analysis :
      /\ analysis[s].official.count = 1
      /\ analysis[s].sibr.count = 2
      /\ analysis[s].official.error > 0

\* C9: observed is (1, 0) exactly when the away score is greater and (0, 1)
\* otherwise, a tie included; so after a game the away side did not win the
\* away rating has not risen and the home rating has not fallen.
C9_TieGoesToHome ==
    /\ pc = "game_score" =>
         LET g == CurGame
         IN  IF g.awayScore > g.homeScore
             THEN /\ ratings[g.awayTeam] >= rating_away
                  /\ ratings[g.homeTeam] <= rating_home
             ELSE /\ ratings[g.awayTeam] <= rating_away
                  /\ ratings[g.homeTeam] >= rating_home
    /\ LogOf("analysis") # <<>> =>
         LET g == GameById(LogOf("analysis")[Len(LogOf("analysis"))].id)
         IN  /\ observed_away + observed_home = 1
             /\ observed_away = 1 <=> g.awayScore > g.homeScore
             /\ observed_away \in {0, 1}

C9_Witness ==
    /\ pc = "game_score"
    /\ CurGame.awayScore = CurGame.homeScore
    /\ rating_away # rating_home
    /\ ratings[CurGame.awayTeam] < rating_away
    /\ ratings[CurGame.homeTeam] > rating_home

\* the sum over the teams of rating - mean, in 1/Scale
SumOfRatings(rt) ==
    LET RECURSIVE Sum(_)
        Sum(S) == IF S = {} THEN 0
                  ELSE LET t == CHOOSE x \in S : TRUE
                       IN  (RatingOf(rt, t) - mean * Scale) + Sum(S \ {t})
    IN  Sum(Teams)

\* C10: calculate_elo changes the ratings of the two teams of the game and
\* no other, by opposite amounts, so the sum of the ratings stays what it
\* was; no other step than calculate_elo and revert_to_mean changes a rating.
C10_EloIsZeroSum ==
    [][ /\ pc = "calculate_elo" =>
             LET a == CurGame.awayTeam
                 h == CurGame.homeTeam
             IN  /\ (RatingOf(ratings', a) - RatingOf(ratings, a))
                      + (RatingOf(ratings', h) - RatingOf(ratings, h)) = 0
                 /\ \A t \in Teams \ {a, h} :
                      RatingOf(ratings', t) = RatingOf(ratings, t)
                 /\ SumOfRatings(ratings') = SumOfRatings(ratings)
        /\ pc \notin {"calculate_elo", "revert_to_mean"} =>
             \A t \in Teams : RatingOf(ratings', t) = RatingOf(ratings, t)
      ]_vars

C10_Witness ==
    /\ pc = "game_score"
    /\ CurGame.awayTeam # CurGame.homeTeam
    /\ ratings[CurGame.awayTeam] # rating_away
    /\ ratings[CurGame.awayTeam] - rating_away # 5 * Scale
    /\ rating_away - ratings[CurGame.awayTeam] # 5 * Scale
    /\ \E t \in DOMAIN ratings \ {CurGame.awayTeam, CurGame.homeTeam} :
         ratings[t] # mean * Scale

====
